---- MODULE Spec2Model ----
(***************************************************************************)
(* Model of src/components/dialogs/ChartStatsDialog.tsx: the component's   *)
(* state (stats, isLoading), its props (isOpen, chart), the two            *)
(* localStorage items it reads, the effect that resolves and ranks the     *)
(* chart's range references, and the render step that filters the list.    *)
(*                                                                         *)
(* JavaScript values are modelled as records of one shape so that they can *)
(* be compared: a string-valued optional field holds Undefined when the    *)
(* property is absent; a JSON value of the usage table is a JsValue.       *)
(***************************************************************************)
EXTENDS Integers, Sequences, FiniteSets, TLC

VARIABLES
    isOpen,      \* prop isOpen
    chart,       \* prop chart (StoredChart | null)
    storage,     \* localStorage: the two raw items the effect reads
    stats,       \* useState<ProcessedStat[]>
    isLoading,   \* useState(true)
    deps         \* [isOpen, chart] the effect last ran with (React's dependency memory)

vars == <<isOpen, chart, storage, stats, isLoading, deps>>

(***************************************************************************)
(* Bounds of the model.                                                    *)
(***************************************************************************)
MaxButtons == 2

(***************************************************************************)
(* Program constants.                                                      *)
(***************************************************************************)
TopLimit == 10

\* "Удаленная папка" and "(Ренж не найден)", transliterated to ASCII.
DeletedFolderName == "Udalennaya papka"
RangeNotFoundName == "(Renzh ne naiden)"

LabelOnly == "label-only"
Exit == "exit"

\* Marker for an absent (undefined) string property.
Undefined == "<undefined>"

(***************************************************************************)
(* JavaScript values of the parsed usage table.                            *)
(***************************************************************************)
JsNum(k) == [t |-> "number", n |-> k, s |-> <<>>]
JsStr(cs) == [t |-> "string", n |-> 0, s |-> cs]
JsNull == [t |-> "null", n |-> 0, s |-> <<>>]
JsBool(b) == [t |-> "boolean", n |-> IF b THEN 1 ELSE 0, s |-> <<>>]
JsObject == [t |-> "object", n |-> 0, s |-> <<>>]
JsUndefined == [t |-> "undefined", n |-> 0, s |-> <<>>]

NaN == [nan |-> TRUE, n |-> 0]
Finite(k) == [nan |-> FALSE, n |-> k]

Digits == {"0", "1", "2", "3", "4", "5", "6", "7", "8", "9"}

DigitValue(c) ==
    CASE c = "0" -> 0 [] c = "1" -> 1 [] c = "2" -> 2 [] c = "3" -> 3
      [] c = "4" -> 4 [] c = "5" -> 5 [] c = "6" -> 6 [] c = "7" -> 7
      [] c = "8" -> 8 [] c = "9" -> 9

RECURSIVE DigitsToNumber(_)
DigitsToNumber(cs) ==
    IF cs = <<>> THEN 0
    ELSE 10 * DigitsToNumber(SubSeq(cs, 1, Len(cs) - 1)) + DigitValue(cs[Len(cs)])

AllDigits(cs) == cs # <<>> /\ \A i \in 1..Len(cs) : cs[i] \in Digits

\* Number(string): the empty string is 0, a decimal literal with an optional
\* sign is its value, anything else is NaN.
StringToNumber(cs) ==
    IF cs = <<>> THEN Finite(0)
    ELSE IF AllDigits(cs) THEN Finite(DigitsToNumber(cs))
    ELSE IF cs[1] = "-" /\ AllDigits(Tail(cs)) THEN Finite(0 - DigitsToNumber(Tail(cs)))
    ELSE IF cs[1] = "+" /\ AllDigits(Tail(cs)) THEN Finite(DigitsToNumber(Tail(cs)))
    ELSE NaN

\* Number(v)
ToNumber(v) ==
    CASE v.t = "number" -> Finite(v.n)
      [] v.t = "string" -> StringToNumber(v.s)
      [] v.t = "null" -> Finite(0)
      [] v.t = "boolean" -> Finite(v.n)
      [] v.t = "object" -> NaN
      [] v.t = "undefined" -> NaN

\* Number(v) || 0
NumberOrZero(v) ==
    LET x == ToNumber(v) IN IF x.nan \/ x.n = 0 THEN 0 ELSE x.n

\* Truthiness of an optional string property.
Truthy(s) == s # Undefined /\ s # ""

(***************************************************************************)
(* The chart prop.                                                         *)
(***************************************************************************)
Link(en, target) == [enabled |-> en, targetRangeId |-> target]
NoLinkButtons == [present |-> FALSE, items |-> <<>>]
LinkButtons(items) == [present |-> TRUE, items |-> items]
Btn(type, linked, links) == [type |-> type, linkedItem |-> linked, linkButtons |-> links]

ButtonPool ==
    { Btn("normal", "r1", NoLinkButtons),
      Btn("normal", LabelOnly, LinkButtons(<<Link(TRUE, "r2"), Link(FALSE, "r3")>>)),
      Btn("normal", Exit, LinkButtons(<<Link(TRUE, ""), Link(TRUE, Undefined), Link(FALSE, "r13")>>)),
      Btn("legend", "r13", LinkButtons(<<Link(TRUE, "r1"), Link(TRUE, "r11"), Link(TRUE, "r2"),
                                         Link(TRUE, "r3"), Link(TRUE, "r4")>>)),
      Btn("normal", "r6", LinkButtons(<<Link(TRUE, "r7"), Link(TRUE, "r8"), Link(TRUE, "r9"),
                                        Link(TRUE, "r10"), Link(FALSE, "r11"), Link(TRUE, "r5")>>)),
      Btn("normal", "r12", LinkButtons(<<Link(TRUE, "r11"), Link(TRUE, "r2"), Link(TRUE, "r3"),
                                         Link(TRUE, "r6"), Link(TRUE, "r4"), Link(TRUE, "r1")>>)),
      Btn("normal", Undefined, LinkButtons(<<Link(TRUE, "r14"), Link(TRUE, "r14")>>)) }

NullChart == [isNull |-> TRUE, buttons |-> <<>>]
Chart(bs) == [isNull |-> FALSE, buttons |-> bs]

Charts == {Chart(bs) : bs \in UNION {[1..n -> ButtonPool] : n \in 0..MaxButtons}}

(***************************************************************************)
(* The two localStorage items.  A raw item is absent (getItem gives null), *)
(* the empty string, a text JSON.parse rejects, or a JSON text; for a JSON *)
(* text the model holds the value JSON.parse returns.                      *)
(***************************************************************************)
RawAbsent == [kind |-> "absent", jtype |-> "none", obj |-> <<>>, arr |-> <<>>]
RawEmpty == [kind |-> "empty", jtype |-> "none", obj |-> <<>>, arr |-> <<>>]
RawInvalid == [kind |-> "invalid", jtype |-> "none", obj |-> <<>>, arr |-> <<>>]
RawJsonNull == [kind |-> "json", jtype |-> "null", obj |-> <<>>, arr |-> <<>>]
RawJsonNumber == [kind |-> "json", jtype |-> "number", obj |-> <<>>, arr |-> <<>>]
RawJsonObject(o) == [kind |-> "json", jtype |-> "object", obj |-> o, arr |-> <<>>]
RawJsonArray(a) == [kind |-> "json", jtype |-> "array", obj |-> <<>>, arr |-> a]

Range(id, name) == [id |-> id, name |-> name]
Folder(name, ranges) == [name |-> name, hasRanges |-> TRUE, ranges |-> ranges]
FolderWithoutRanges(name) == [name |-> name, hasRanges |-> FALSE, ranges |-> <<>>]

ScenarioTable == ("r1" :> JsNum(5)) @@ ("r2" :> JsNum(9)) @@ ("r3" :> JsNum(2))

DistinctTable ==
    ("r1" :> JsNum(1)) @@ ("r2" :> JsNum(2)) @@ ("r3" :> JsNum(3)) @@ ("r4" :> JsNum(4))
    @@ ("r5" :> JsNum(5)) @@ ("r6" :> JsNum(6)) @@ ("r7" :> JsNum(7)) @@ ("r8" :> JsNum(8))
    @@ ("r9" :> JsNum(9)) @@ ("r10" :> JsNum(10)) @@ ("r11" :> JsNum(11))
    @@ ("r12" :> JsNum(12)) @@ ("r13" :> JsNum(13)) @@ ("r14" :> JsNum(14))

TiesTable ==
    ("r1" :> JsNum(1)) @@ ("r2" :> JsNum(0)) @@ ("r3" :> JsNum(0)) @@ ("r4" :> JsNum(2))
    @@ ("r6" :> JsNum(1)) @@ ("r7" :> JsNum(1)) @@ ("r8" :> JsNum(0)) @@ ("r9" :> JsNum(2))
    @@ ("r10" :> JsNum(1)) @@ ("r11" :> JsNum(1)) @@ ("r12" :> JsNum(1)) @@ ("r13" :> JsNum(4))

MalformedTable ==
    ("r1" :> JsNum(-3)) @@ ("r2" :> JsStr(<<"4">>)) @@ ("r3" :> JsStr(<<"a", "b", "c">>))
    @@ ("r4" :> JsBool(TRUE)) @@ ("r5" :> JsNull) @@ ("r6" :> JsObject) @@ ("r7" :> JsNum(2))
    @@ ("r8" :> JsStr(<<"-", "2">>)) @@ ("r9" :> JsStr(<<>>)) @@ ("r10" :> JsBool(FALSE))
    @@ ("r11" :> JsNum(7)) @@ ("r12" :> JsStr(<<"1", "2">>)) @@ ("r14" :> JsStr(<<"1", "x">>))

RawStatsSamples ==
    { RawAbsent, RawEmpty, RawInvalid, RawJsonNull, RawJsonNumber,
      RawJsonObject(ScenarioTable), RawJsonObject(DistinctTable),
      RawJsonObject(TiesTable), RawJsonObject(MalformedTable) }

ScenarioFolders == <<Folder("F", <<Range("r1", "A"), Range("r2", "B")>>)>>

\* r1 occurs in both folders.
FullFolders ==
    << Folder("F", <<Range("r1", "A"), Range("r2", "B"), Range("r4", "D"), Range("r6", "E"),
                     Range("r7", "G"), Range("r8", "H")>>),
       Folder("K", <<Range("r9", "I"), Range("r1", "J"), Range("r10", "L"), Range("r11", "M"),
                     Range("r12", "N"), Range("r14", "O")>>) >>

NoRangesFolders == <<Folder("F", <<Range("r1", "A")>>), FolderWithoutRanges("G")>>

RawFoldersSamples ==
    { RawAbsent, RawInvalid, RawJsonNull, RawJsonObject(<<>>),
      RawJsonArray(<<>>), RawJsonArray(ScenarioFolders), RawJsonArray(FullFolders),
      RawJsonArray(NoRangesFolders) }

Storages ==
    [stats : RawStatsSamples,
     folders : {RawJsonArray(ScenarioFolders), RawJsonArray(FullFolders)}]
    \cup
    [stats : {RawJsonObject(DistinctTable), RawJsonObject(TiesTable), RawJsonObject(MalformedTable)},
     folders : RawFoldersSamples]

(***************************************************************************)
(* Step 1 of the effect: read and parse the two items.                     *)
(***************************************************************************)
\* JSON.parse(raw) throws a SyntaxError
JsonParseThrows(raw) == raw.kind = "invalid"

\* rawStats ? JSON.parse(rawStats) : {}
AllStats(rawStats) ==
    IF rawStats.kind \in {"absent", "empty"} THEN RawJsonObject(<<>>) ELSE rawStats

\* rawFolders ? JSON.parse(rawFolders) : []
AllFolders(rawFolders) ==
    IF rawFolders.kind \in {"absent", "empty"} THEN RawJsonArray(<<>>) ELSE rawFolders

(***************************************************************************)
(* Step 2: the map from range id to folder and range name.                 *)
(***************************************************************************)
\* Map.set: a later entry for the same key replaces the earlier one.
MapSet(map, key, value) == [k \in DOMAIN map \cup {key} |-> IF k = key THEN value ELSE map[k]]

RECURSIVE FolderRangesForEach(_, _, _)
FolderRangesForEach(map, folder, i) ==
    IF i > Len(folder.ranges) THEN map
    ELSE FolderRangesForEach(
             MapSet(map, folder.ranges[i].id,
                    [folderName |-> folder.name, rangeName |-> folder.ranges[i].name]),
             folder, i + 1)

RECURSIVE AllFoldersForEach(_, _, _)
AllFoldersForEach(map, folders, i) ==
    IF i > Len(folders) THEN map
    ELSE AllFoldersForEach(FolderRangesForEach(map, folders[i], 1), folders, i + 1)

RangeDetailsMap(allFolders) == AllFoldersForEach(<<>>, allFolders.arr, 1)

\* allFolders.forEach or folder.ranges.forEach throws a TypeError
RangeDetailsMapThrows(allFolders) ==
    \/ allFolders.jtype # "array"
    \/ \E i \in 1..Len(allFolders.arr) : ~allFolders.arr[i].hasRanges

(***************************************************************************)
(* Step 3: the ids the chart refers to, in the order a Set keeps them.     *)
(***************************************************************************)
InSeq(x, seq) == \E i \in 1..Len(seq) : seq[i] = x

\* Faulty variant of Set.add: a list push, which keeps duplicates.
SetAddKeepsDuplicates(ids, id) == Append(ids, id)

\* Set.add
SetAdd(ids, id) == IF InSeq(id, ids) THEN ids ELSE Append(ids, id)

\* Faulty variant: the "exit" sentinel is not excluded.
LinkedItemIsReferenceWithoutExit(button) ==
    /\ button.type = "normal"
    /\ Truthy(button.linkedItem)
    /\ button.linkedItem # LabelOnly

LinkedItemIsReference(button) ==
    /\ button.type = "normal"
    /\ Truthy(button.linkedItem)
    /\ button.linkedItem # LabelOnly
    /\ button.linkedItem # Exit

\* Faulty variant: the enabled flag is not consulted.
LinkButtonIsReferenceIgnoringEnabled(linkBtn) == Truthy(linkBtn.targetRangeId)

LinkButtonIsReference(linkBtn) == linkBtn.enabled /\ Truthy(linkBtn.targetRangeId)

RECURSIVE LinkButtonsForEach(_, _, _)
LinkButtonsForEach(ids, items, i) ==
    IF i > Len(items) THEN ids
    ELSE LinkButtonsForEach(
             IF LinkButtonIsReference(items[i]) THEN SetAdd(ids, items[i].targetRangeId) ELSE ids,
             items, i + 1)

ButtonStep(ids, button) ==
    LET afterLinked ==
            IF LinkedItemIsReference(button) THEN SetAdd(ids, button.linkedItem) ELSE ids
    IN  IF button.linkButtons.present
        THEN LinkButtonsForEach(afterLinked, button.linkButtons.items, 1)
        ELSE afterLinked

RECURSIVE ButtonsForEach(_, _, _)
ButtonsForEach(ids, buttons, i) ==
    IF i > Len(buttons) THEN ids
    ELSE ButtonsForEach(ButtonStep(ids, buttons[i]), buttons, i + 1)

ChartRangeIds(ch) == ButtonsForEach(<<>>, ch.buttons, 1)

(***************************************************************************)
(* Step 4: one ProcessedStat per id.                                       *)
(***************************************************************************)
\* allStats[rangeId]
StatsLookup(allStats, rangeId) ==
    IF allStats.jtype = "object" /\ rangeId \in DOMAIN allStats.obj
    THEN allStats.obj[rangeId]
    ELSE JsUndefined

\* allStats[rangeId] throws a TypeError when allStats is null
StatsLookupThrows(allStats) == allStats.jtype = "null"

\* Faulty variant: the count is looked up only for ranges the catalog knows.
ProcessStatOrphanCountZero(rangeId, allStats, map) ==
    LET found == rangeId \in DOMAIN map
    IN  [ id |-> rangeId,
          folderName |-> IF found THEN map[rangeId].folderName ELSE DeletedFolderName,
          rangeName |-> IF found THEN map[rangeId].rangeName ELSE RangeNotFoundName,
          count |-> IF found THEN NumberOrZero(StatsLookup(allStats, rangeId)) ELSE 0 ]

ProcessStat(rangeId, allStats, map) ==
    LET count == NumberOrZero(StatsLookup(allStats, rangeId))
        found == rangeId \in DOMAIN map
    IN  [ id |-> rangeId,
          folderName |-> IF found THEN map[rangeId].folderName ELSE DeletedFolderName,
          rangeName |-> IF found THEN map[rangeId].rangeName ELSE RangeNotFoundName,
          count |-> count ]

ProcessedStats(ids, allStats, map) ==
    [i \in 1..Len(ids) |-> ProcessStat(ids[i], allStats, map)]

(***************************************************************************)
(* Step 5: sort by count, take the first ten.                              *)
(***************************************************************************)
\* Faulty variant: the operands swapped, an ascending sort.
CompareAscending(a, b) == a.count - b.count

\* (a, b) => b.count - a.count
Compare(a, b) == b.count - a.count

\* Faulty variant of the sort: x goes before the elements it ties with.
RECURSIVE InsertSortedTiesFirst(_, _)
InsertSortedTiesFirst(sorted, x) ==
    IF sorted = <<>> THEN <<x>>
    ELSE IF (x.count - sorted[Len(sorted)].count) < 0 THEN Append(sorted, x)
    ELSE Append(InsertSortedTiesFirst(SubSeq(sorted, 1, Len(sorted) - 1), x),
                sorted[Len(sorted)])

\* Array.prototype.sort is stable (ECMAScript 2019): x goes after every
\* element the comparator does not put after it.
RECURSIVE InsertSorted(_, _)
InsertSorted(sorted, x) ==
    IF sorted = <<>> THEN <<x>>
    ELSE IF Compare(sorted[Len(sorted)], x) <= 0 THEN Append(sorted, x)
    ELSE Append(InsertSorted(SubSeq(sorted, 1, Len(sorted) - 1), x), sorted[Len(sorted)])

RECURSIVE SortFrom(_, _, _)
SortFrom(sorted, seq, i) ==
    IF i > Len(seq) THEN sorted ELSE SortFrom(InsertSorted(sorted, seq[i]), seq, i + 1)

Sort(seq) == SortFrom(<<>>, seq, 1)

\* Faulty variant of slice: the end index taken as inclusive.
SliceInclusive(seq, start, end) ==
    SubSeq(seq, start + 1, IF end + 1 < Len(seq) THEN end + 1 ELSE Len(seq))

\* Array.prototype.slice(start, end) for 0 <= start <= end
Slice(seq, start, end) ==
    SubSeq(seq, start + 1, IF end < Len(seq) THEN end ELSE Len(seq))

TopStats(processedStats) == Slice(Sort(processedStats), 0, TopLimit)

(***************************************************************************)
(* The body of the try block and its catch.                                *)
(***************************************************************************)
TryThrows(ch, st) ==
    \/ JsonParseThrows(st.stats)
    \/ JsonParseThrows(st.folders)
    \/ RangeDetailsMapThrows(AllFolders(st.folders))
    \/ (ChartRangeIds(ch) # <<>> /\ StatsLookupThrows(AllStats(st.stats)))

\* The value handed to setStats.
ResolvedStats(ch, st) ==
    IF TryThrows(ch, st) THEN <<>>
    ELSE TopStats(ProcessedStats(ChartRangeIds(ch), AllStats(st.stats),
                                 RangeDetailsMap(AllFolders(st.folders))))

(***************************************************************************)
(* Render: what the dialog body shows.                                     *)
(***************************************************************************)
\* Faulty variant of the display filter: >= in place of >.
ShownNonNegative(stat) == stat.count >= 0

\* stats.filter(stat => stat.count > 0)
Shown(stat) == stat.count > 0

DisplayedStats(list) == SelectSeq(list, Shown)

View ==
    IF isLoading THEN "spinner"
    ELSE IF Len(stats) > 0
         THEN (IF Len(DisplayedStats(stats)) = 0 THEN "no-usage-message" ELSE "list")
         ELSE "no-ranges-message"

(***************************************************************************)
(* The state machine.                                                      *)
(***************************************************************************)
\* Charts the parent switches to while the dialog is mounted.
SwitchCharts ==
    { NullChart,
      Chart(<<Btn("normal", "r1", LinkButtons(<<Link(TRUE, "r2")>>))>>) }

NoDeps == [ran |-> FALSE, isOpen |-> FALSE, chart |-> NullChart]
Deps(o, c) == [ran |-> TRUE, isOpen |-> o, chart |-> c]

\* The dependencies [isOpen, chart] differ from the last run's (or first mount).
EffectPending == deps # Deps(isOpen, chart)

\* The first render: any props, any content of the two stored items.  The
\* component never writes localStorage, so a behaviour keeps the content
\* its effect runs read.
Init ==
    /\ isOpen \in BOOLEAN
    /\ chart \in Charts \cup {NullChart}
    /\ storage \in Storages
    /\ stats = <<>>
    /\ isLoading = TRUE
    /\ deps = NoDeps

\* useEffect: early return when the dialog is closed or there is no chart.
EffectSkip ==
    /\ EffectPending
    /\ (~isOpen \/ chart.isNull)
    /\ deps' = Deps(isOpen, chart)
    /\ UNCHANGED <<isOpen, chart, storage, stats, isLoading>>

\* useEffect: the try / catch / finally.
EffectRun ==
    /\ EffectPending
    /\ isOpen /\ ~chart.isNull
    /\ stats' = ResolvedStats(chart, storage)
    /\ isLoading' = FALSE
    /\ deps' = Deps(isOpen, chart)
    /\ UNCHANGED <<isOpen, chart, storage>>

\* onOpenChange: the parent flips isOpen.
OnOpenChange(open) ==
    /\ ~EffectPending
    /\ open # isOpen
    /\ isOpen' = open
    /\ UNCHANGED <<chart, storage, stats, isLoading, deps>>

\* The parent passes another chart.
ChartChange(c) ==
    /\ ~EffectPending
    /\ c # chart
    /\ chart' = c
    /\ UNCHANGED <<isOpen, storage, stats, isLoading, deps>>

Next ==
    \/ EffectSkip
    \/ EffectRun
    \/ \E open \in BOOLEAN : OnOpenChange(open)
    \/ \E c \in SwitchCharts : ChartChange(c)

Spec == Init /\ [][Next]_vars

TypeOK ==
    /\ isOpen \in BOOLEAN
    /\ isLoading \in BOOLEAN
    /\ Len(stats) <= TopLimit

(***************************************************************************)
(* Vocabulary of the properties, stated on the inputs directly.            *)
(***************************************************************************)
Min(a, b) == IF a < b THEN a ELSE b
Max(a, b) == IF a > b THEN a ELSE b

Sentinels == {LabelOnly, Exit}

ButtonsOf(ch) == {ch.buttons[i] : i \in 1..Len(ch.buttons)}
LinksOf(b) == IF b.linkButtons.present
              THEN {b.linkButtons.items[i] : i \in 1..Len(b.linkButtons.items)}
              ELSE {}

\* Identifiers referenced by linkedItem of a normal button.
LinkedRefs(ch) ==
    {b.linkedItem : b \in {x \in ButtonsOf(ch) :
        x.type = "normal" /\ x.linkedItem \notin {Undefined, ""} \cup Sentinels}}

\* Identifiers referenced by an enabled link button with a target.
LinkRefs(ch) ==
    UNION {{l.targetRangeId : l \in {x \in LinksOf(b) :
        x.enabled /\ x.targetRangeId \notin {Undefined, ""}}} : b \in ButtonsOf(ch)}

\* The distinct range identifiers the chart references.
RefSet(ch) == LinkedRefs(ch) \cup LinkRefs(ch)

\* Targets of link buttons that are disabled, when nothing else references them.
DisabledOnlyTargets(ch) ==
    UNION {{l.targetRangeId : l \in {x \in LinksOf(b) : ~x.enabled}} : b \in ButtonsOf(ch)}
    \ RefSet(ch)

\* Every string the scan of the chart meets, in scan order: for each button
\* its linkedItem, then the targets of its link buttons.
MentionsOfButton(b) ==
    <<[id |-> b.linkedItem, ref |-> b.linkedItem \in LinkedRefs(Chart(<<b>>))]>>
    \o [i \in 1..Len(b.linkButtons.items) |->
           [id |-> b.linkButtons.items[i].targetRangeId,
            ref |-> b.linkButtons.items[i].enabled
                    /\ b.linkButtons.items[i].targetRangeId \notin {Undefined, ""}]]

RECURSIVE MentionsFrom(_, _)
MentionsFrom(ch, i) ==
    IF i > Len(ch.buttons) THEN <<>>
    ELSE MentionsOfButton(ch.buttons[i]) \o MentionsFrom(ch, i + 1)

Mentions(ch) == MentionsFrom(ch, 1)

\* Position at which the scan first collects id.
FirstPos(ch, id) ==
    LET m == Mentions(ch)
        at == {i \in 1..Len(m) : m[i].ref /\ m[i].id = id}
    IN  CHOOSE i \in at : \A j \in at : i <= j

\* The effect has run on the current chart with the dialog open.
Ran == ~EffectPending /\ isOpen /\ ~chart.isNull

\* The stored items are a catalog and a usage table: each is absent or the
\* JSON text of a list of folders with their ranges, resp. of an object.
IsCatalog(raw) ==
    \/ raw.kind \in {"absent", "empty"}
    \/ /\ raw.kind = "json" /\ raw.jtype = "array"
       /\ \A i \in 1..Len(raw.arr) : raw.arr[i].hasRanges
IsUsageTable(raw) ==
    \/ raw.kind \in {"absent", "empty"}
    \/ raw.kind = "json" /\ raw.jtype = "object"
Loaded == IsCatalog(storage.folders) /\ IsUsageTable(storage.stats)

\* The usage table's stored value for id, if any.
HasStored(id) == storage.stats.kind = "json" /\ storage.stats.jtype = "object"
                 /\ id \in DOMAIN storage.stats.obj
Stored(id) == storage.stats.obj[id]

\* The catalog's (folder name, range name) pairs for id.
CatalogNames(id) ==
    IF storage.folders.kind = "json" /\ storage.folders.jtype = "array"
    THEN UNION {{<<storage.folders.arr[f].name, storage.folders.arr[f].ranges[r].name>> :
                    r \in {x \in 1..Len(storage.folders.arr[f].ranges) :
                              storage.folders.arr[f].ranges[x].id = id}} :
                f \in 1..Len(storage.folders.arr)}
    ELSE {}

StatIds == {stats[i].id : i \in 1..Len(stats)}
EntriesOf(id) == {i \in 1..Len(stats) : stats[i].id = id}

\* The count the resolver gives a referenced id.
CountOf(id) == NumberOrZero(StatsLookup(AllStats(storage.stats), id))

(***************************************************************************)
(* C1.  The list is in non-increasing order of count: every adjacent pair  *)
(* of entries (i, i+1) has count[i] >= count[i+1].                         *)
(***************************************************************************)
C1_Ordering ==
    \A i \in 1..(Len(stats) - 1) : stats[i].count >= stats[i + 1].count

\* A run on a chart whose ids were not collected in rank order.
C1_Witness ==
    /\ Ran /\ Len(stats) >= 3
    /\ stats[1].count > stats[Len(stats)].count
    /\ stats[1].id # ChartRangeIds(chart)[1]

(***************************************************************************)
(* C2.  For a chart, a catalog and a usage table, the output has exactly   *)
(* min(10, number of distinct referenced identifiers) entries.             *)
(***************************************************************************)
C2_Truncation ==
    (Ran /\ Loaded) => Len(stats) = Min(10, Cardinality(RefSet(chart)))

\* Twelve distinct references give ten entries.
C2_Witness ==
    Ran /\ Loaded /\ Cardinality(RefSet(chart)) = 12 /\ Len(stats) = 10

\* An empty chart gives an empty output.
C2_WitnessEmpty ==
    Ran /\ Loaded /\ chart.buttons = <<>> /\ stats = <<>>

(***************************************************************************)
(* C3.  No two entries share an id, and an identifier referenced by the    *)
(* chart has exactly one entry when nothing is cut by truncation.          *)
(***************************************************************************)
C3_Deduplication ==
    /\ \A i, j \in 1..Len(stats) : stats[i].id = stats[j].id => i = j
    /\ (Ran /\ Loaded /\ Cardinality(RefSet(chart)) <= 10)
          => \A id \in RefSet(chart) : Cardinality(EntriesOf(id)) = 1

\* An id referenced both by a linkedItem and by a link button, and resolved.
C3_Witness ==
    /\ Ran /\ Loaded
    /\ \E id \in LinkedRefs(chart) \cap LinkRefs(chart) : Cardinality(EntriesOf(id)) = 1

C5_DisabledLinkExclusion ==
    Ran => /\ StatIds \cap DisabledOnlyTargets(chart) = {}
           /\ StatIds \cap {Undefined, ""} = {}

\* A run with references, a disabled-only target and an enabled link without target.
C5_Witness ==
    /\ Ran /\ Loaded /\ Len(stats) > 0
    /\ DisabledOnlyTargets(chart) # {}
    /\ \E b \in ButtonsOf(chart) : \E l \in LinksOf(b) : l.enabled /\ l.targetRangeId = ""

(***************************************************************************)
(* C6.  A referenced identifier absent from the catalog keeps its entry,   *)
(* with the two orphan placeholders as names and the usage table's number  *)
(* as count; one present in the catalog has the names of a catalog entry.  *)
(***************************************************************************)
C6_OrphanHandling ==
    Ran =>
      /\ \A i \in 1..Len(stats) :
            /\ CatalogNames(stats[i].id) = {}
                  => /\ stats[i].folderName = DeletedFolderName
                     /\ stats[i].rangeName = RangeNotFoundName
            /\ CatalogNames(stats[i].id) # {}
                  => <<stats[i].folderName, stats[i].rangeName>> \in CatalogNames(stats[i].id)
            /\ (HasStored(stats[i].id) /\ Stored(stats[i].id).t = "number")
                  => stats[i].count = Stored(stats[i].id).n
      /\ (Loaded /\ Cardinality(RefSet(chart)) <= 10) => RefSet(chart) \subseteq StatIds

\* An orphan with usage next to a catalogued range.
C6_Witness ==
    /\ Ran /\ Loaded
    /\ \E i, j \in 1..Len(stats) :
          /\ CatalogNames(stats[i].id) = {} /\ stats[i].count > 0
          /\ stats[i].folderName = DeletedFolderName
          /\ CatalogNames(stats[j].id) # {}

(***************************************************************************)
(* C7.  The count of an entry is a non-negative number: the stored value   *)
(* when that is a valid count (a number that is not negative), and 0 when  *)
(* the value is missing or is not numeric (null, a boolean, an object, a   *)
(* string that is not a decimal literal).                                  *)
(***************************************************************************)
NonNumeric(v) ==
    \/ v.t \in {"null", "boolean", "object", "undefined"}
    \/ v.t = "string" /\ StringToNumber(v.s).nan

C7_CountCoercion ==
    Ran => \A i \in 1..Len(stats) :
              /\ stats[i].count >= 0
              /\ (HasStored(stats[i].id) /\ Stored(stats[i].id).t = "number"
                    /\ Stored(stats[i].id).n >= 0)
                    => stats[i].count = Stored(stats[i].id).n
              /\ (~HasStored(stats[i].id) \/ NonNumeric(Stored(stats[i].id)))
                    => stats[i].count = 0

(***************************************************************************)
(* C8.  Whatever the stored data are, a run on a chart ends with one entry *)
(* per distinct referenced identifier, up to the limit of 10.              *)
(***************************************************************************)
C8_NeverAborts ==
    Ran => Len(stats) = Min(10, Cardinality(RefSet(chart)))

(***************************************************************************)
(* C9.  The output is fixed by the inputs: entries of equal count are in   *)
(* the order in which the scan of the buttons first collected their ids,   *)
(* and of two equal-count ids the one collected later is the one cut.      *)
(***************************************************************************)
C9_StableTieBreak ==
    Ran =>
      /\ \A i, j \in 1..Len(stats) :
            (i < j /\ stats[i].count = stats[j].count)
               => FirstPos(chart, stats[i].id) < FirstPos(chart, stats[j].id)
      /\ \A i \in 1..Len(stats) : \A id \in RefSet(chart) \ StatIds :
            CountOf(id) = stats[i].count
               => FirstPos(chart, stats[i].id) < FirstPos(chart, id)

\* A tie across the truncation boundary.
C9_Witness ==
    /\ Ran /\ Loaded /\ Len(stats) = 10
    /\ \E id \in RefSet(chart) \ StatIds : CountOf(id) = stats[10].count
    /\ stats[9].count = stats[10].count

(***************************************************************************)
(* C10.  Entries of count 0 stay in the resolved list and take part in the *)
(* cut to 10; the render step alone hides the entries whose count is not   *)
(* greater than 0 and shows the others in the order of the list.           *)
(***************************************************************************)
C10_ZeroCountKept ==
    LET positive == {id \in RefSet(chart) : CountOf(id) > 0}
        zero == {id \in RefSet(chart) : CountOf(id) = 0}
        k == Cardinality({i \in 1..Len(stats) : stats[i].count > 0})
    IN  /\ (Ran /\ Loaded) =>
              Cardinality({i \in 1..Len(stats) : stats[i].count = 0})
                 = Min(Cardinality(zero), Max(0, 10 - Cardinality(positive)))
        /\ DisplayedStats(stats) = SubSeq(stats, 1, k)

\* Zero-count entries in the list, one zero-count id cut, and a shorter display.
C10_Witness ==
    /\ Ran /\ Loaded /\ View = "list"
    /\ \E i \in 1..Len(stats) : stats[i].count = 0
    /\ \E id \in RefSet(chart) \ StatIds : CountOf(id) = 0
    /\ Len(DisplayedStats(stats)) < Len(stats)

====
